---- MODULE Spec2Model ----
(***************************************************************************)
(* A model of the frame-selection pipeline of semantic-video-analysis:     *)
(* AnalyzeVideoHandler.handle builds a PeriodicSelectionStrategy from the  *)
(* video file, FrameSelectionAnalysis.analyse() decodes and analyses the   *)
(* selected frames and turns the surviving ones into Actions, and the      *)
(* handler formats the MediaContext as its JSON result.                    *)
(*                                                                         *)
(* Times (period, duration, timestamp, start, end) are integers counting   *)
(* half seconds; the inputs are whole seconds, so that the midpoint of two *)
(* timestamps is again an integer.  Frame rates count half frames per      *)
(* second, so that 3 is 1.5 fps and 60 is 30 fps.  Python's float          *)
(* arithmetic is modelled by rounding every sum and product to MantBits    *)
(* significant bits, ties to even, as IEEE-754 does with 53 bits.          *)
(*                                                                         *)
(* Spec and SpecFloat follow one handle() call; SpecExplicit follows       *)
(* analyse() with a strategy the caller built from numbers of its own;     *)
(* SpecConc follows the frame loops of two analyse() calls that share the  *)
(* directory extracted_frames/; SpecServer follows main() of mcp_server;   *)
(* SpecChain follows the building of HandlerChains and their dispatch();   *)
(* SpecSelect follows select_frames() alone; SpecTech follows one call on  *)
(* the TechnicalFrameAnalyzer, in hundredths of its metrics' units;        *)
(* SpecAudio follows one AnalyzeAudioHandler.handle() call.                *)
(***************************************************************************)
EXTENDS Integers, Sequences, FiniteSets, TLC

VARIABLES
    video,              \* the file behind "video.mp4": readable, duration, fps
    arguments,          \* the arguments dict of the tool call
    pc,                 \* position of the call inside handle()/analyse()
    strategy,           \* the PeriodicSelectionStrategy (period, duration, fps)
    technical_analyzer, \* FrameSelectionAnalysis.technical_analyzer
    duration,           \* analyse(): clip.duration
    timestamp,          \* select_frames(): the loop variable
    selected_frames,    \* select_frames(): frames, then analyse(): selected_frames
    frame_i,            \* analyse(): the next position of enumerate(selected_frames)
    frame_analyses,     \* analyse(): the surviving (frame_info, caption, technical_analysis)
    media_context,      \* the MediaContext analyse() returned
    exc,                \* the exception in flight or raised to the caller
    result,             \* what handle() returned
    decoded,            \* history: what extract_frame returned for each selected frame
    env_failed,         \* history: which collaborator raised, and for which selected frame
    extracted_frames,   \* the files under extracted_frames/: path -> the image written
    invocations,        \* analyse() calls of other processes sharing the directory
    main_pc,            \* mcp_server: position inside main()
    blip_model,         \* mcp_server: the global handle of the captioning model
    blip,               \* the BlipModel object: what is loaded, and its history
    handler_chain,      \* mcp_server: the global handler chain
    main_exc,           \* mcp_server: the exception in flight in main()
    calls,              \* mcp_server: history of the frames captioned by tool calls
    exit_path,          \* mcp_server: history of how main() left its try block
    next_handler,       \* the _next_handler attribute of every handler object
    chains,             \* the HandlerChain objects built so far: their _handlers tuples
    dispatching,        \* the dispatch() call under way, or the last one
    handled,            \* history: the handlers whose handle() the dispatch invoked
    tools,              \* the last get_all_tools(): the chain asked, the list returned
    analyzer,           \* the TechnicalFrameAnalyzer: which sub-models are loaded
    tech_call,          \* the call made on the analyzer, with its argument
    tech_pc,            \* position of that call
    tech_result,        \* what the call returned
    warnings,           \* history: the sub-models whose failure was printed
    audio_arguments,    \* AnalyzeAudioHandler.handle: the arguments dict
    audio_pc,           \* AnalyzeAudioHandler.handle: position of the call
    temp_audio_file,    \* AnalyzeAudioHandler.handle: the local temp_audio_file
    tmp_files,          \* the files of the temporary directory
    audio_exc,          \* AnalyzeAudioHandler.handle: the exception in flight or raised
    audio_result,       \* AnalyzeAudioHandler.handle: what the call returned
    remove_failed       \* history: os.remove raised OSError

\* The variables of one handle() call.
pipeline_vars ==
    <<video, arguments, pc, strategy, technical_analyzer, duration, timestamp,
      selected_frames, frame_i, frame_analyses, media_context, exc, result,
      decoded, env_failed>>

\* The variables of the server process.
server_vars == <<main_pc, blip_model, blip, handler_chain, main_exc, calls, exit_path>>

\* The variables of the handler chains.
chain_vars == <<next_handler, chains, dispatching, handled, tools>>

\* The variables of a call on the TechnicalFrameAnalyzer.
tech_vars == <<analyzer, tech_call, tech_pc, tech_result, warnings>>

\* The variables of one AnalyzeAudioHandler.handle() call.
audio_vars ==
    <<audio_arguments, audio_pc, temp_audio_file, tmp_files, audio_exc, audio_result,
      remove_failed>>

\* The variables a handle() call never touches.
other_vars == <<invocations, server_vars, chain_vars, tech_vars, audio_vars>>

\* The variables the concurrent analyse() calls never touch.
outside_conc == <<pipeline_vars, server_vars, chain_vars, tech_vars, audio_vars>>

\* The variables main() never touches.
outside_server ==
    <<pipeline_vars, extracted_frames, invocations, chain_vars, tech_vars, audio_vars>>

\* The variables building a chain and dispatching never touch.
outside_chain ==
    <<pipeline_vars, extracted_frames, invocations, server_vars, tech_vars, audio_vars>>

\* The variables a call on the TechnicalFrameAnalyzer never touches.
outside_tech ==
    <<pipeline_vars, extracted_frames, invocations, server_vars, chain_vars, audio_vars>>

\* The variables AnalyzeAudioHandler.handle() never touches.
outside_audio ==
    <<pipeline_vars, extracted_frames, invocations, server_vars, chain_vars, tech_vars>>

vars ==
    <<pipeline_vars, extracted_frames, invocations, server_vars, chain_vars, tech_vars,
      audio_vars>>

-----------------------------------------------------------------------------
(* Bounds of the model *)

\* Longest video, in seconds.
MaxDuration == 10
\* Longest period, in seconds.
MaxPeriod == 3
\* Periods range from -NegPeriod seconds.
NegPeriod == 1
\* select_frames() is followed for at most this many frames.
MaxFrames == 6
\* Significant bits of a float (53 in the program).
MantBits == 10

\* Frames captioned by the tool calls of one server run.
MaxCalls == 3

\* HandlerChain objects built in one behaviour.
MaxChains == 2
\* Handlers passed to the HandlerChain constructor, of() or with_handlers().
MaxChainLen == 2
\* Most segments a transcription has.
MaxSegments == 3

\* The frame rates of the videos, in half frames per second.
FpsSet == {3, 60}

-----------------------------------------------------------------------------
(* Python values *)

None == [kind |-> "None"]
NoException == [type |-> "none", msg |-> "none"]

RECURSIVE Pow2(_)
Pow2(n) == IF n = 0 THEN 1 ELSE 2 * Pow2(n - 1)

\* The spacing of the floats around a >= 0: the least q = 2^e with a < 2^MantBits * q.
RECURSIVE Ulp(_, _)
Ulp(a, q) == IF a < Pow2(MantBits) * q THEN q ELSE Ulp(a, 2 * q)

\* Round to nearest, ties to even, of a >= 0.
RoundAbs(a) ==
    LET q  == Ulp(a, 1)
        m  == a \div q
        lo == m * q
        r  == a - lo
    IN  IF 2 * r < q THEN lo
        ELSE IF 2 * r > q THEN lo + q
        ELSE IF m % 2 = 0 THEN lo ELSE lo + q

\* The float nearest to x.
Round(x) == IF x < 0 THEN 0 - RoundAbs(0 - x) ELSE RoundAbs(x)

\* a + b, a * b and a - b on floats.
FAdd(a, b) == Round(a + b)
FMul(a, b) == Round(a * b)
FSub(a, b) == Round(a - b)

\* int(x) of a float x given in quarters (half seconds times half frames): towards zero.
IntOfQuarters(x) == IF x < 0 THEN 0 - ((0 - x) \div 4) ELSE x \div 4

\* (a + b) / 2: the sum rounds, the halving is exact.
Mid(a, b) == FAdd(a, b) \div 2

-----------------------------------------------------------------------------
(* The tool call's arguments: a dict with any of the three keys *)

VideoPaths == {"video.mp4", "missing.mp4"}

ArgumentsOver(periods) ==
    LET P == periods
        E == BOOLEAN
        V == VideoPaths
    IN  {<<>>}
        \cup {[video_path |-> v] : v \in V}
        \cup {[period |-> p] : p \in P}
        \cup {[video_path |-> v, period |-> p] : v \in V, p \in P}
        \cup {[video_path |-> v, enable_technical_analysis |-> e] : v \in V, e \in E}
        \cup {[video_path |-> v, period |-> p, enable_technical_analysis |-> e] :
                 v \in V, p \in P, e \in E}

\* dict.get(key, default)
Get(d, key, default) == IF key \in DOMAIN d THEN d[key] ELSE default

\* os.path.exists(video_path)
PathExists(path) == path = "video.mp4"

\* arguments.get("period", 1.0), in half seconds
DefaultPeriod == 2

\* A faulty Period: the period argument is ignored.
Period_AlwaysDefault == DefaultPeriod

\* AnalyzeVideoHandler(enable_technical_analysis=True)
HandlerEnableTechnicalAnalysis == TRUE

-----------------------------------------------------------------------------
(* Initial states *)

\* A BlipModel that was not constructed; enter_calls and exit_calls count the
\* calls of __enter__ and __exit__, exit_raised tells whether __exit__ raised.
NoBlip == [constructed |-> FALSE, processor |-> FALSE, model |-> FALSE,
           enter_calls |-> 0, exit_calls |-> 0, exit_raised |-> FALSE]

\* The handler objects: one AnalyzeVideoHandler and two AnalyzeAudioHandlers.
Handlers ==
    {[kind |-> "AnalyzeVideoHandler", id |-> 1],
     [kind |-> "AnalyzeAudioHandler", id |-> 1],
     [kind |-> "AnalyzeAudioHandler", id |-> 2]}

\* A handler object without the attribute _next_handler: reading it raises
\* AttributeError.
NoAttribute == [kind |-> "AttributeError"]

\* _next_handler after __init__: AnalyzeAudioHandler calls BaseHandler.__init__,
\* which sets it to None; AnalyzeVideoHandler.__init__ does not, and sets nothing.
ConstructedNext(h) == IF h.kind = "AnalyzeAudioHandler" THEN None ELSE NoAttribute

\* No dispatch() was called.
NoDispatch ==
    [pc |-> "idle", chain |-> 0, tool_name |-> "none", current |-> None,
     visited |-> {}, exc |-> NoException]

\* The handlers are constructed; no chain is built yet.
NoChains ==
    /\ next_handler = [h \in Handlers |-> ConstructedNext(h)]
    /\ chains = <<>>
    /\ dispatching = NoDispatch
    /\ handled = <<>>
    /\ tools = [chain |-> 0, definitions |-> <<>>]

\* No call is made on a TechnicalFrameAnalyzer.
TechIdle ==
    /\ analyzer = [svm_model |-> FALSE, yolo_model |-> FALSE]
    /\ tech_call = None
    /\ tech_pc = "idle"
    /\ tech_result = None
    /\ warnings = {}

\* No AnalyzeAudioHandler.handle() call is under way.
AudioIdle ==
    /\ audio_arguments = <<>>
    /\ audio_pc = "idle"
    /\ temp_audio_file = None
    /\ tmp_files = {}
    /\ audio_exc = NoException
    /\ audio_result = None
    /\ remove_failed = FALSE

\* main() of mcp_server is not running.
ServerIdle ==
    /\ main_pc = "idle"
    /\ blip_model = None
    /\ blip = NoBlip
    /\ handler_chain = None
    /\ main_exc = NoException
    /\ calls = <<>>
    /\ exit_path = "none"

InitOver(durations, periods) ==
    /\ video \in [readable : BOOLEAN, duration : durations, fps : FpsSet]
    /\ arguments \in ArgumentsOver(periods)
    /\ pc = "handle"
    /\ strategy = None
    /\ technical_analyzer = None
    /\ duration = 0
    /\ timestamp = 0
    /\ selected_frames = <<>>
    /\ frame_i = 1
    /\ frame_analyses = <<>>
    /\ media_context = None
    /\ exc = NoException
    /\ result = None
    /\ decoded = <<>>
    /\ env_failed = None
    /\ extracted_frames = <<>>
    /\ invocations = <<>>
    /\ ServerIdle
    /\ NoChains
    /\ TechIdle
    /\ AudioIdle

Durations == {2 * d : d \in 0..MaxDuration}
Periods == {2 * p : p \in (0 - NegPeriod)..MaxPeriod}

Init == InitOver(Durations, Periods)

-----------------------------------------------------------------------------
(* AnalyzeVideoHandler.handle: validation *)

Raise(type, msg) ==
    /\ exc' = [type |-> type, msg |-> msg]
    /\ pc' = "raised"

\* A faulty HandleValidate: video_path is looked for before the arguments are
\* known to be there, so that an empty call is answered 'video_path is required'.
HandleValidate_PathFirst ==
    /\ pc = "handle"
    /\ IF "video_path" \notin DOMAIN arguments
       THEN Raise("ValueError", "video_path is required")
       ELSE IF ~PathExists(arguments.video_path)
       THEN Raise("ValueError", "Video file not found")
       ELSE /\ pc' = "from_video_file"
            /\ exc' = exc
    /\ UNCHANGED <<video, arguments, strategy, technical_analyzer, duration, timestamp,
                   selected_frames, frame_i, frame_analyses, media_context, result,
                   decoded, env_failed>>
    /\ UNCHANGED <<extracted_frames, other_vars>>

HandleValidate ==
    /\ pc = "handle"
    /\ IF DOMAIN arguments = {}
       THEN Raise("ValueError", "Missing arguments for analyze_video")
       ELSE IF "video_path" \notin DOMAIN arguments
       THEN Raise("ValueError", "video_path is required")
       ELSE IF ~PathExists(arguments.video_path)
       THEN Raise("ValueError", "Video file not found")
       ELSE /\ pc' = "from_video_file"
            /\ exc' = exc
    /\ UNCHANGED <<video, arguments, strategy, technical_analyzer, duration, timestamp,
                   selected_frames, frame_i, frame_analyses, media_context, result,
                   decoded, env_failed>>
    /\ UNCHANGED <<extracted_frames, other_vars>>

\* arguments.get("period", 1.0)
Period == Get(arguments, "period", DefaultPeriod)

\* arguments.get("enable_technical_analysis", self.enable_technical_analysis)
EnableTechnicalAnalysis ==
    Get(arguments, "enable_technical_analysis", HandlerEnableTechnicalAnalysis)

-----------------------------------------------------------------------------
(* PeriodicSelectionStrategy *)

FrameInfo(index, ts) == [index |-> index, timestamp |-> ts]

\* int(timestamp * self.fps)
FrameIndex(ts, fps) == IntOfQuarters(FMul(ts, fps))

\* PeriodicSelectionStrategy.from_video_file, called by handle(): reading the
\* metadata of an unreadable file raises, and handle() catches it.
FromVideoFile ==
    /\ pc = "from_video_file"
    /\ IF video.readable
       THEN /\ strategy' = [period |-> Period, duration |-> video.duration,
                            fps |-> video.fps]
            /\ pc' = "init_analysis"
            /\ exc' = exc
       ELSE /\ strategy' = strategy
            /\ pc' = "except"
            /\ exc' = [type |-> "OSError", msg |-> "could not read the video"]
    /\ UNCHANGED <<video, arguments, technical_analyzer, duration, timestamp,
                   selected_frames, frame_i, frame_analyses, media_context, result,
                   decoded, env_failed>>
    /\ UNCHANGED <<extracted_frames, other_vars>>

\* A faulty SelectFramesStep: the loop runs while timestamp <= duration.
SelectFramesStep_Inclusive ==
    /\ pc = "select_frames"
    /\ IF timestamp <= strategy.duration
       THEN /\ Len(selected_frames) < MaxFrames
            /\ selected_frames' =
                   Append(selected_frames,
                          FrameInfo(FrameIndex(timestamp, strategy.fps), timestamp))
            /\ timestamp' = FAdd(timestamp, strategy.period)
            /\ pc' = pc
       ELSE /\ pc' = "frames"
            /\ UNCHANGED <<selected_frames, timestamp>>
    /\ UNCHANGED <<video, arguments, strategy, technical_analyzer, duration, frame_i,
                   frame_analyses, media_context, exc, result, decoded, env_failed>>
    /\ UNCHANGED <<extracted_frames, other_vars>>

\* One turn of the while loop of select_frames(), or its return.
SelectFramesStep ==
    /\ pc = "select_frames"
    /\ IF timestamp < strategy.duration
       THEN /\ Len(selected_frames) < MaxFrames
            /\ selected_frames' =
                   Append(selected_frames,
                          FrameInfo(FrameIndex(timestamp, strategy.fps), timestamp))
            /\ timestamp' = FAdd(timestamp, strategy.period)
            /\ pc' = pc
       ELSE /\ pc' = "frames"
            /\ UNCHANGED <<selected_frames, timestamp>>
    /\ UNCHANGED <<video, arguments, strategy, technical_analyzer, duration, frame_i,
                   frame_analyses, media_context, exc, result, decoded, env_failed>>
    /\ UNCHANGED <<extracted_frames, other_vars>>

-----------------------------------------------------------------------------
(* FrameSelectionAnalysis *)

\* FrameSelectionAnalysis.__init__
InitAnalysis ==
    /\ pc = "init_analysis"
    /\ technical_analyzer' =
           IF EnableTechnicalAnalysis THEN [kind |-> "TechnicalFrameAnalyzer"] ELSE None
    /\ pc' = "analyse"
    /\ UNCHANGED <<video, arguments, strategy, duration, timestamp, selected_frames,
                   frame_i, frame_analyses, media_context, exc, result, decoded,
                   env_failed>>
    /\ UNCHANGED <<extracted_frames, other_vars>>

\* analyse(): read the duration and call strategy.select_frames().
AnalyseBegin ==
    /\ pc = "analyse"
    /\ duration' = video.duration
    /\ timestamp' = 0
    /\ selected_frames' = <<>>
    /\ pc' = "select_frames"
    /\ UNCHANGED <<video, arguments, strategy, technical_analyzer, frame_i,
                   frame_analyses, media_context, exc, result, decoded, env_failed>>
    /\ UNCHANGED <<extracted_frames, other_vars>>

\* os.path.basename(video_path).split('.')[0]
BaseName(path) ==
    CASE path \in {"video.mp4", "a/video.mp4", "b/video.mp4"} -> "video"
      [] path = "missing.mp4" -> "missing"

\* f"extracted_frames/{base_name}_frame{i}.jpg", i counting from 0
FramePath(base_name, i) == <<base_name, i - 1>>

\* The image cap.read() returns for a frame of a video.
FrameImage(video_path, index) == [video_path |-> video_path, frame |-> index]

\* cv2.imwrite(path, image): the file is created or overwritten.
WriteFile(files, path, image) ==
    [q \in DOMAIN files \cup {path} |-> IF q = path THEN image ELSE files[q]]

\* What frame_analysis_fn returns for the frame file written at position i.
Caption(i, frame_info) == [kind |-> "caption", file |-> i - 1, frame |-> frame_info.index]

\* What technical_analyzer.analyze_frame returns for a frame.
Metrics(frame_info) == [kind |-> "metrics", frame |-> frame_info.index]

\* What the collaborators can do with one selected frame.
FrameOutcomes ==
    {"decode_failed", "caption_raised", "analysed"}
    \cup (IF EnableTechnicalAnalysis /\ technical_analyzer # None
          THEN {"imread_none", "technical_raised"} ELSE {})

\* A faulty ExtractedAnalyses: a frame that failed to decode is kept.
ExtractedAnalyses_KeepDropped(fa, frame_info, ret, caption, technical_analysis) ==
    Append(fa, [frame_info |-> frame_info, caption |-> caption,
                technical_analysis |-> technical_analysis])

\* frame_analyses after the loop body ran for frame_info.
ExtractedAnalyses(fa, frame_info, ret, caption, technical_analysis) ==
    IF ret
    THEN Append(fa, [frame_info |-> frame_info, caption |-> caption,
                     technical_analysis |-> technical_analysis])
    ELSE fa

\* A faulty TechnicalAnalysisOf: the frame is analysed whatever the flag says.
TechnicalAnalysisOf_IgnoreFlag(frame_info, outcome) ==
    IF outcome = "imread_none" THEN None ELSE Metrics(frame_info)

\* The technical_analysis of a decoded frame whose caption was computed.
TechnicalAnalysisOf(frame_info, outcome) ==
    IF EnableTechnicalAnalysis /\ technical_analyzer # None /\ outcome = "analysed"
    THEN Metrics(frame_info)
    ELSE None

\* One turn of the first for loop of analyse().
AnalyseFrame ==
    /\ pc = "frames"
    /\ frame_i <= Len(selected_frames)
    /\ \E outcome \in FrameOutcomes :
          LET frame_info == selected_frames[frame_i]
              ret        == outcome # "decode_failed"
          IN  /\ decoded' = Append(decoded, ret)
              /\ extracted_frames' =
                     IF ret
                     THEN WriteFile(extracted_frames,
                                    FramePath(BaseName(arguments.video_path), frame_i),
                                    FrameImage(arguments.video_path, frame_info.index))
                     ELSE extracted_frames
              /\ IF outcome \in {"caption_raised", "technical_raised"}
                 THEN /\ pc' = "except"
                      /\ exc' = [type |-> "Exception", msg |-> outcome]
                      /\ env_failed' = [kind |-> outcome, frame |-> frame_i]
                      /\ UNCHANGED <<frame_analyses, frame_i>>
                 ELSE /\ frame_analyses' =
                             ExtractedAnalyses(frame_analyses, frame_info, ret,
                                               Caption(frame_i, frame_info),
                                               TechnicalAnalysisOf(frame_info, outcome))
                      /\ frame_i' = frame_i + 1
                      /\ UNCHANGED <<pc, exc, env_failed>>
    /\ UNCHANGED <<video, arguments, strategy, technical_analyzer, duration, timestamp,
                   selected_frames, media_context, result>>
    /\ UNCHANGED other_vars

Action(start, end, content, technical_analysis) ==
    [start |-> start, end |-> end, content |-> content,
     technical_analysis |-> technical_analysis]

\* A faulty ActionStart: an action starts at the previous frame, not at the midpoint.
ActionStart_PreviousTimestamp(fa, k) ==
    IF k = 1 THEN 0 ELSE fa[k - 1].frame_info.timestamp

\* A faulty ActionEnd: an action ends at the next frame, not at the midpoint.
ActionEnd_NextTimestamp(fa, k, dur) ==
    IF k = Len(fa) THEN dur ELSE fa[k + 1].frame_info.timestamp

\* A faulty ActionEnd: the last action ends at its own frame, not at the duration.
ActionEnd_LastOwnTimestamp(fa, k, dur) ==
    IF k = Len(fa) THEN fa[k].frame_info.timestamp
    ELSE Mid(fa[k].frame_info.timestamp, fa[k + 1].frame_info.timestamp)

\* start and end of the action of the k-th surviving frame.
ActionStart(fa, k) ==
    IF k = 1 THEN 0
    ELSE Mid(fa[k - 1].frame_info.timestamp, fa[k].frame_info.timestamp)

ActionEnd(fa, k, dur) ==
    IF k = Len(fa) THEN dur
    ELSE Mid(fa[k].frame_info.timestamp, fa[k + 1].frame_info.timestamp)

\* A faulty Content: the frame index is reported as the frame's timestamp.
Content_IndexAsTimestamp(t) ==
    [description |-> t.caption, frame_index |-> t.frame_info.index,
     frame_timestamp |-> t.frame_info.index]

Content(t) ==
    [description |-> t.caption, frame_index |-> t.frame_info.index,
     frame_timestamp |-> t.frame_info.timestamp]

\* A faulty ActionsOf: no surviving frame gives one action over the whole video.
ActionsOf_Degenerate(fa, dur) ==
    IF fa = <<>>
    THEN <<Action(0, dur, None, None)>>
    ELSE [k \in 1..Len(fa) |->
             Action(IF k = 1 THEN 0
                    ELSE Mid(fa[k - 1].frame_info.timestamp, fa[k].frame_info.timestamp),
                    IF k = Len(fa) THEN dur
                    ELSE Mid(fa[k].frame_info.timestamp, fa[k + 1].frame_info.timestamp),
                    Content(fa[k]), fa[k].technical_analysis)]

\* The second for loop of analyse().
ActionsOf(fa, dur) ==
    [k \in 1..Len(fa) |->
        Action(ActionStart(fa, k), ActionEnd(fa, k, dur), Content(fa[k]),
               fa[k].technical_analysis)]

\* analyse(): the first loop is over; build the actions and return the MediaContext.
BuildActions ==
    /\ pc = "frames"
    /\ frame_i > Len(selected_frames)
    /\ media_context' = [actions |-> ActionsOf(frame_analyses, duration)]
    /\ pc' = "format"
    /\ UNCHANGED <<video, arguments, strategy, technical_analyzer, duration, timestamp,
                   selected_frames, frame_i, frame_analyses, exc, result, decoded,
                   env_failed>>
    /\ UNCHANGED <<extracted_frames, other_vars>>

-----------------------------------------------------------------------------
(* AnalyzeVideoHandler.handle: the result *)

\* A faulty ActionResult: the duration of an entry is where its action ends.
ActionResult_DurationIsEnd(a) ==
    IF a.technical_analysis # None
    THEN [start |-> a.start, end |-> a.end, duration |-> a.end,
          content |-> a.content, technical_analysis |-> a.technical_analysis]
    ELSE [start |-> a.start, end |-> a.end, duration |-> a.end,
          content |-> a.content]

\* One entry of result["actions"].
ActionResult(a) ==
    IF a.technical_analysis # None
    THEN [start |-> a.start, end |-> a.end, duration |-> FSub(a.end, a.start),
          content |-> a.content, technical_analysis |-> a.technical_analysis]
    ELSE [start |-> a.start, end |-> a.end, duration |-> FSub(a.end, a.start),
          content |-> a.content]

FormatResult ==
    /\ pc = "format"
    /\ result' = [kind |-> "json",
                  video_path |-> arguments.video_path,
                  analysis_period |-> Period,
                  total_actions |-> Len(media_context.actions),
                  actions |-> [k \in 1..Len(media_context.actions) |->
                                  ActionResult(media_context.actions[k])]]
    /\ pc' = "returned"
    /\ UNCHANGED <<video, arguments, strategy, technical_analyzer, duration, timestamp,
                   selected_frames, frame_i, frame_analyses, media_context, exc,
                   decoded, env_failed>>
    /\ UNCHANGED <<extracted_frames, other_vars>>

\* A faulty HandleExcept: the frames analysed before the failure are returned as
\* the actions of the call.
HandleExcept_PartialActions ==
    /\ pc = "except"
    /\ result' = [kind |-> "json",
                  video_path |-> arguments.video_path,
                  analysis_period |-> Period,
                  total_actions |-> Len(frame_analyses),
                  actions |-> [k \in 1..Len(frame_analyses) |->
                                  ActionResult(ActionsOf(frame_analyses, duration)[k])]]
    /\ pc' = "returned"
    /\ UNCHANGED <<video, arguments, strategy, technical_analyzer, duration, timestamp,
                   selected_frames, frame_i, frame_analyses, media_context, exc,
                   decoded, env_failed>>
    /\ UNCHANGED <<extracted_frames, other_vars>>

\* except Exception as e: return the error text, the only element of the list
\* handle() returns.
HandleExcept ==
    /\ pc = "except"
    /\ result' = [kind |-> "text", text |-> "Error analyzing video: ", error |-> exc.msg]
    /\ pc' = "returned"
    /\ UNCHANGED <<video, arguments, strategy, technical_analyzer, duration, timestamp,
                   selected_frames, frame_i, frame_analyses, media_context, exc,
                   decoded, env_failed>>
    /\ UNCHANGED <<extracted_frames, other_vars>>

-----------------------------------------------------------------------------

Next ==
    \/ HandleValidate
    \/ FromVideoFile
    \/ InitAnalysis
    \/ AnalyseBegin
    \/ SelectFramesStep
    \/ AnalyseFrame
    \/ BuildActions
    \/ FormatResult
    \/ HandleExcept

Spec == Init /\ [][Next]_vars

\* The same call on videos and periods beyond 2^MantBits half seconds, where sums of
\* timestamps no longer fit a float exactly (as 0.1 + 0.1 + ... does not with 53 bits).
FloatDurations == {1000, 2072, 2488}
FloatPeriods == {414, 422, 1000}

InitFloat == InitOver(FloatDurations, FloatPeriods)

SpecFloat == InitFloat /\ [][Next]_vars

\* FrameSelectionAnalysis used without the handler: the caller builds
\* PeriodicSelectionStrategy(period, duration, fps) from numbers of its own and hands
\* it to FrameSelectionAnalysis(video_path, frame_analysis_fn, strategy,
\* enable_technical_analysis); arguments holds what the caller passed.
ExplicitStrategies == [period : Periods, duration : Durations, fps : FpsSet]

InitExplicit ==
    /\ video \in [readable : {TRUE}, duration : Durations, fps : FpsSet]
    /\ arguments \in {[video_path |-> "video.mp4", enable_technical_analysis |-> e] :
                         e \in BOOLEAN}
    /\ pc = "init_analysis"
    /\ strategy \in ExplicitStrategies
    /\ technical_analyzer = None
    /\ duration = 0
    /\ timestamp = 0
    /\ selected_frames = <<>>
    /\ frame_i = 1
    /\ frame_analyses = <<>>
    /\ media_context = None
    /\ exc = NoException
    /\ result = None
    /\ decoded = <<>>
    /\ env_failed = None
    /\ extracted_frames = <<>>
    /\ invocations = <<>>
    /\ ServerIdle
    /\ NoChains
    /\ TechIdle
    /\ AudioIdle

NextExplicit ==
    \/ InitAnalysis
    \/ AnalyseBegin
    \/ SelectFramesStep
    \/ AnalyseFrame
    \/ BuildActions

SpecExplicit == InitExplicit /\ [][NextExplicit]_vars

\* select_frames() alone, on strategies of any period, on still videos (fps 0) and
\* on values whose sums no longer fit a float exactly.
SelectStrategies ==
    [period : Periods \cup FloatPeriods, duration : Durations \cup FloatDurations,
     fps : FpsSet \cup {0}]

InitSelect ==
    /\ video \in [readable : {TRUE}, duration : {0}, fps : {0}]
    /\ arguments = [video_path |-> "video.mp4"]
    /\ pc = "init_analysis"
    /\ strategy \in SelectStrategies
    /\ technical_analyzer = None
    /\ duration = 0
    /\ timestamp = 0
    /\ selected_frames = <<>>
    /\ frame_i = 1
    /\ frame_analyses = <<>>
    /\ media_context = None
    /\ exc = NoException
    /\ result = None
    /\ decoded = <<>>
    /\ env_failed = None
    /\ extracted_frames = <<>>
    /\ invocations = <<>>
    /\ ServerIdle
    /\ NoChains
    /\ TechIdle
    /\ AudioIdle

NextSelect ==
    \/ InitAnalysis
    \/ AnalyseBegin
    \/ SelectFramesStep

SpecSelect == InitSelect /\ [][NextSelect]_vars

-----------------------------------------------------------------------------
(* Two analyse() calls sharing the directory extracted_frames/ *)

\* Longest video of the concurrent calls, in seconds.
MaxConcDuration == 3

\* Two videos in different directories, of the same file name.
ConcPaths == <<"a/video.mp4", "b/video.mp4">>
ConcDurations == {2 * d : d \in 1..MaxConcDuration}
ConcPeriods == {p \in Periods : p > 0}

\* select_frames() as a whole, for a period > 0.
RECURSIVE SelectFramesFrom(_, _, _, _)
SelectFramesFrom(ts, period, dur, fps) ==
    IF ts < dur
    THEN <<FrameInfo(FrameIndex(ts, fps), ts)>>
             \o SelectFramesFrom(FAdd(ts, period), period, dur, fps)
    ELSE <<>>

\* frame_analysis_fn(frame_path) and analyze_frame(cv2.imread(frame_path)): both
\* work on the image that the file holds when they read it.
CaptionOf(image) == [kind |-> "caption", image |-> image]
MetricsOf(image) == [kind |-> "metrics", image |-> image]

\* No handle() call is under way.
PipelineIdle ==
    /\ video = None
    /\ arguments = <<>>
    /\ pc = "idle"
    /\ strategy = None
    /\ technical_analyzer = None
    /\ duration = 0
    /\ timestamp = 0
    /\ selected_frames = <<>>
    /\ frame_i = 1
    /\ frame_analyses = <<>>
    /\ media_context = None
    /\ exc = NoException
    /\ result = None
    /\ decoded = <<>>
    /\ env_failed = None

\* An analyse() call that has selected its frames and enters its first loop.
Invocation(video_path, period, dur, fps) ==
    [video_path |-> video_path,
     selected_frames |-> SelectFramesFrom(0, period, dur, fps),
     i |-> 1,
     at |-> "extract_frame",
     caption |-> None,
     frame_analyses |-> <<>>]

InitConc ==
    /\ PipelineIdle
    /\ ServerIdle
    /\ NoChains
    /\ TechIdle
    /\ AudioIdle
    /\ extracted_frames = <<>>
    /\ \E p1, p2 \in ConcPeriods, d1, d2 \in ConcDurations, fps \in FpsSet :
          invocations = <<Invocation(ConcPaths[1], p1, d1, fps),
                          Invocation(ConcPaths[2], p2, d2, fps)>>

\* The file of the frame an invocation is working on.
ConcFramePath(inv) == FramePath(BaseName(inv.video_path), inv.i)

\* extract_frame(): the frame is read and, if that worked, written to frame_path.
ConcExtractFrame ==
    \E k \in DOMAIN invocations, ret \in BOOLEAN :
        LET inv == invocations[k]
        IN  /\ inv.at = "extract_frame"
            /\ inv.i <= Len(inv.selected_frames)
            /\ IF ret
               THEN /\ extracted_frames' =
                           WriteFile(extracted_frames, ConcFramePath(inv),
                                     FrameImage(inv.video_path,
                                                inv.selected_frames[inv.i].index))
                    /\ invocations' = [invocations EXCEPT ![k].at = "caption"]
               ELSE /\ invocations' = [invocations EXCEPT ![k].i = inv.i + 1]
                    /\ UNCHANGED extracted_frames
            /\ UNCHANGED outside_conc

\* caption = self.frame_analysis_fn(frame_path)
ConcCaption ==
    \E k \in DOMAIN invocations :
        LET inv == invocations[k]
        IN  /\ inv.at = "caption"
            /\ invocations' =
                   [invocations EXCEPT
                       ![k].caption = CaptionOf(extracted_frames[ConcFramePath(inv)]),
                       ![k].at = "imread"]
            /\ UNCHANGED <<extracted_frames, outside_conc>>

\* frame = cv2.imread(frame_path); analyze_frame(frame); frame_analyses.append(...)
ConcTechnical ==
    \E k \in DOMAIN invocations :
        LET inv == invocations[k]
        IN  /\ inv.at = "imread"
            /\ invocations' =
                   [invocations EXCEPT
                       ![k].frame_analyses =
                           Append(inv.frame_analyses,
                                  [frame_info |-> inv.selected_frames[inv.i],
                                   caption |-> inv.caption,
                                   technical_analysis |->
                                       MetricsOf(extracted_frames[ConcFramePath(inv)])]),
                       ![k].i = inv.i + 1,
                       ![k].at = "extract_frame"]
            /\ UNCHANGED <<extracted_frames, outside_conc>>

\* The first loop is over: analyse() goes on to build its actions.
ConcLoopEnd ==
    \E k \in DOMAIN invocations :
        LET inv == invocations[k]
        IN  /\ inv.at = "extract_frame"
            /\ inv.i > Len(inv.selected_frames)
            /\ invocations' = [invocations EXCEPT ![k].at = "actions"]
            /\ UNCHANGED <<extracted_frames, outside_conc>>

NextConc ==
    \/ ConcExtractFrame
    \/ ConcCaption
    \/ ConcTechnical
    \/ ConcLoopEnd

SpecConc == InitConc /\ [][NextConc]_vars

-----------------------------------------------------------------------------
(* mcp_server: main(), initialize_application(), cleanup_application() *)

InitServer ==
    /\ PipelineIdle
    /\ NoChains
    /\ TechIdle
    /\ AudioIdle
    /\ extracted_frames = <<>>
    /\ invocations = <<>>
    /\ main_pc = "initialize"
    /\ blip_model = None
    /\ blip = NoBlip
    /\ handler_chain = None
    /\ main_exc = NoException
    /\ calls = <<>>
    /\ exit_path = "none"

\* What can happen inside initialize_application().
InitializeOutcomes ==
    {"initialized", "constructor_raised", "processor_raised", "model_raised",
     "interrupted"}

\* initialize_application(): blip_model = BlipModel(...); blip_model.__enter__();
\* handler_chain = HandlerChain.of(...).  An Exception is printed and raised again;
\* a KeyboardInterrupt while the model loads passes through.
InitializeApplication ==
    /\ main_pc = "initialize"
    /\ \E outcome \in InitializeOutcomes :
          /\ blip_model' =
                 IF outcome = "constructor_raised" THEN None ELSE [kind |-> "BlipModel"]
          /\ blip' =
                 IF outcome = "constructor_raised" THEN blip
                 ELSE [constructed |-> TRUE,
                       processor |-> outcome \in {"model_raised", "initialized"},
                       model |-> outcome = "initialized",
                       enter_calls |-> blip.enter_calls + 1,
                       exit_calls |-> blip.exit_calls,
                       exit_raised |-> blip.exit_raised]
          /\ handler_chain' =
                 IF outcome = "initialized"
                 THEN <<"AnalyzeVideoHandler", "AnalyzeAudioHandler">>
                 ELSE handler_chain
          /\ main_exc' =
                 CASE outcome = "initialized" -> NoException
                   [] outcome = "interrupted" ->
                          [type |-> "KeyboardInterrupt", msg |-> "initialize"]
                   [] OTHER -> [type |-> "Exception", msg |-> outcome]
          /\ main_pc' = IF outcome = "initialized" THEN "run" ELSE "except"
          /\ exit_path' = IF outcome = "initialized" THEN exit_path ELSE outcome
    /\ calls' = calls
    /\ UNCHANGED outside_server

\* A tool call captions one frame with the global model: frame_analysis_fn answers
\* with the caption, or with its 'Frame analysis failed' text when generate_caption
\* raises.  Neither loads nor releases the model.
CaptionFrame ==
    /\ main_pc = "run"
    /\ Len(calls) < MaxCalls
    /\ \E outcome \in {"caption", "Frame analysis failed"} :
          calls' = Append(calls, outcome)
    /\ UNCHANGED <<main_pc, blip_model, blip, handler_chain, main_exc, exit_path>>
    /\ UNCHANGED outside_server

\* How server.run() (inside stdio_server()) can end.
RunOutcomes == {"returned", "KeyboardInterrupt", "Exception", "CancelledError"}

ServerRunEnds ==
    /\ main_pc = "run"
    /\ \E outcome \in RunOutcomes :
          /\ exit_path' = outcome
          /\ IF outcome = "returned"
             THEN /\ main_pc' = "finally"
                  /\ main_exc' = main_exc
             ELSE /\ main_pc' = "except"
                  /\ main_exc' = [type |-> outcome, msg |-> "server.run"]
    /\ UNCHANGED <<blip_model, blip, handler_chain, calls>>
    /\ UNCHANGED outside_server

\* except KeyboardInterrupt / except Exception of main(): both print and go on; any
\* other BaseException (asyncio's CancelledError) stays in flight.
MainExcept ==
    /\ main_pc = "except"
    /\ main_exc' =
           IF main_exc.type \in {"KeyboardInterrupt", "Exception"}
           THEN NoException ELSE main_exc
    /\ main_pc' = "finally"
    /\ UNCHANGED <<blip_model, blip, handler_chain, calls, exit_path>>
    /\ UNCHANGED outside_server

\* BlipModel.__exit__ on the object: model and processor are deleted; raised tells
\* whether torch.cuda.empty_cache() raised at the end.
BlipExit(b, raised) ==
    [b EXCEPT !.model = FALSE, !.processor = FALSE, !.exit_calls = b.exit_calls + 1,
              !.exit_raised = raised]

\* A faulty CleanupApplication: an exception of __exit__ is not caught, so that it
\* leaves main() and the handle is not reset.
CleanupApplication_Uncaught ==
    /\ main_pc = "finally"
    /\ IF blip_model # None
       THEN \E raised \in BOOLEAN :
               /\ blip' = BlipExit(blip, raised)
               /\ blip_model' = IF raised THEN blip_model ELSE None
               /\ main_exc' = IF raised THEN [type |-> "Exception", msg |-> "__exit__"]
                              ELSE main_exc
       ELSE UNCHANGED <<blip, blip_model, main_exc>>
    /\ main_pc' = "ended"
    /\ UNCHANGED <<handler_chain, calls, exit_path>>
    /\ UNCHANGED outside_server

\* finally of main(): cleanup_application().  An Exception of __exit__ is printed;
\* the handle is reset in any case.
CleanupApplication ==
    /\ main_pc = "finally"
    /\ IF blip_model # None
       THEN \E raised \in BOOLEAN :
               /\ blip' = BlipExit(blip, raised)
               /\ blip_model' = None
       ELSE UNCHANGED <<blip, blip_model>>
    /\ main_pc' = "ended"
    /\ UNCHANGED <<handler_chain, main_exc, calls, exit_path>>
    /\ UNCHANGED outside_server

NextServer ==
    \/ InitializeApplication
    \/ CaptionFrame
    \/ ServerRunEnds
    \/ MainExcept
    \/ CleanupApplication

SpecServer == InitServer /\ [][NextServer]_vars

-----------------------------------------------------------------------------
(* HandlerChain and BaseHandler.handle_request *)

ToolNames == {"analyze_video_with_technical", "analyze_audio", "analyze_video"}

\* can_handle(tool_name) of the two handler classes
CanHandle(h, tool_name) ==
    IF h.kind = "AnalyzeVideoHandler"
    THEN tool_name = "analyze_video_with_technical"
    ELSE tool_name = "analyze_audio"

\* get_tool_definition(): the name of the tool the handler advertises
ToolDefinition(h) ==
    [name |-> IF h.kind = "AnalyzeVideoHandler"
              THEN "analyze_video_with_technical"
              ELSE "analyze_audio"]

\* The tuples of at most n handlers.
HandlerTuples(n) == UNION {[1..k -> Handlers] : k \in 0..n}

\* _setup_chain(): for i in range(len - 1): handlers[i].set_next(handlers[i + 1]),
\* on the handler objects themselves, from position i on.
RECURSIVE SetupChain(_, _, _)
SetupChain(nh, hs, i) ==
    IF i >= Len(hs) THEN nh
    ELSE SetupChain([nh EXCEPT ![hs[i]] = hs[i + 1]], hs, i + 1)

\* HandlerChain.__init__(handlers)
NewChain(hs) ==
    /\ chains' = Append(chains, hs)
    /\ next_handler' = SetupChain(next_handler, hs, 1)

InitChain ==
    /\ PipelineIdle
    /\ extracted_frames = <<>>
    /\ invocations = <<>>
    /\ ServerIdle
    /\ NoChains
    /\ TechIdle
    /\ AudioIdle

\* HandlerChain(handlers) and HandlerChain.of(*handlers)
ChainOf ==
    /\ dispatching.pc # "handle_request"
    /\ Len(chains) < MaxChains
    /\ \E hs \in HandlerTuples(MaxChainLen) : NewChain(hs)
    /\ UNCHANGED <<dispatching, handled, tools>>
    /\ UNCHANGED outside_chain

\* chain.with_handler(handler)
WithHandler ==
    /\ dispatching.pc # "handle_request"
    /\ Len(chains) < MaxChains
    /\ \E c \in DOMAIN chains, h \in Handlers : NewChain(Append(chains[c], h))
    /\ UNCHANGED <<dispatching, handled, tools>>
    /\ UNCHANGED outside_chain

\* chain.with_handlers(*handlers)
WithHandlers ==
    /\ dispatching.pc # "handle_request"
    /\ Len(chains) < MaxChains
    /\ \E c \in DOMAIN chains, hs \in HandlerTuples(MaxChainLen) :
          NewChain(chains[c] \o hs)
    /\ UNCHANGED <<dispatching, handled, tools>>
    /\ UNCHANGED outside_chain

\* chain.dispatch(tool_name, arguments): an empty chain raises, any other starts
\* handle_request on its first handler.
Dispatch ==
    /\ dispatching.pc # "handle_request"
    /\ \E c \in DOMAIN chains, tool_name \in ToolNames :
          dispatching' =
              IF chains[c] = <<>>
              THEN [pc |-> "raised", chain |-> c, tool_name |-> tool_name,
                    current |-> None, visited |-> {},
                    exc |-> [type |-> "ValueError",
                             msg |-> "No handlers registered in the chain"]]
              ELSE [pc |-> "handle_request", chain |-> c, tool_name |-> tool_name,
                    current |-> chains[c][1], visited |-> {}, exc |-> NoException]
    /\ handled' = <<>>
    /\ UNCHANGED <<next_handler, chains, tools>>
    /\ UNCHANGED outside_chain

\* handle_request() of the current handler: handle the call, pass it to
\* _next_handler, or raise.  Passing the call to a handler that already passed it on
\* never ends but in Python's RecursionError.
HandleRequest ==
    /\ dispatching.pc = "handle_request"
    /\ LET h == dispatching.current
           n == next_handler[h]
       IN  IF CanHandle(h, dispatching.tool_name)
           THEN /\ handled' = Append(handled, h)
                /\ dispatching' = [dispatching EXCEPT !.pc = "returned"]
           ELSE /\ handled' = handled
                /\ dispatching' =
                       IF n = NoAttribute
                       THEN [dispatching EXCEPT
                                !.pc = "raised",
                                !.exc = [type |-> "AttributeError",
                                         msg |-> "_next_handler"]]
                       ELSE IF n = None
                       THEN [dispatching EXCEPT
                                !.pc = "raised",
                                !.exc = [type |-> "ValueError",
                                         msg |-> "No handler found for tool"]]
                       ELSE IF n \in dispatching.visited \cup {h}
                       THEN [dispatching EXCEPT
                                !.pc = "raised",
                                !.exc = [type |-> "RecursionError",
                                         msg |-> "maximum recursion depth exceeded"]]
                       ELSE [dispatching EXCEPT
                                !.current = n,
                                !.visited = dispatching.visited \cup {h}]
    /\ UNCHANGED <<next_handler, chains, tools>>
    /\ UNCHANGED outside_chain

\* chain.get_all_tools(): the tool definitions of the handlers of the tuple
GetAllTools ==
    /\ dispatching.pc # "handle_request"
    /\ \E c \in DOMAIN chains :
          tools' = [chain |-> c,
                    definitions |-> [i \in DOMAIN chains[c] |->
                                        ToolDefinition(chains[c][i])]]
    /\ UNCHANGED <<next_handler, chains, dispatching, handled>>
    /\ UNCHANGED outside_chain

NextChain ==
    \/ GetAllTools
    \/ ChainOf
    \/ WithHandler
    \/ WithHandlers
    \/ Dispatch
    \/ HandleRequest

SpecChain == InitChain /\ [][NextChain]_vars

\* What handle_request() of handler h ends with for a tool, under the pointers nh:
\* the handler whose handle() is invoked, or the exception raised.
RECURSIVE RequestOutcome(_, _, _, _)
RequestOutcome(nh, h, tool_name, visited) ==
    IF CanHandle(h, tool_name) THEN [kind |-> "handled", by |-> h]
    ELSE IF nh[h] = NoAttribute THEN [kind |-> "raised", by |-> "AttributeError"]
    ELSE IF nh[h] = None THEN [kind |-> "raised", by |-> "ValueError"]
    ELSE IF nh[h] \in visited \cup {h} THEN [kind |-> "raised", by |-> "RecursionError"]
    ELSE RequestOutcome(nh, nh[h], tool_name, visited \cup {h})

\* What dispatch(tool_name, ...) of a chain with the tuple hs ends with.
DispatchOutcome(nh, hs, tool_name) ==
    IF hs = <<>> THEN [kind |-> "raised", by |-> "ValueError"]
    ELSE RequestOutcome(nh, hs[1], tool_name, {})

-----------------------------------------------------------------------------
(* TechnicalFrameAnalyzer *)

\* The scalar metrics that have a category. Values are in hundredths.
MetricKeys ==
    {"clarity", "contrast", "brightness", "sharpness", "saturation", "color_temperature"}

\* The values the metrics take in the model: each threshold of
\* _assign_quality_categories, its two neighbours and values well inside each band
\* (450, 250 and 50 for clarity; 0.25, -0.35 and 0.0 for color_temperature).
MetricValues ==
    [clarity           |-> <<5000, 19999, 20000, 20001, 25000, 39999, 40000, 40001, 45000>>,
     sharpness         |-> <<45000, 40001, 40000, 39999, 25000, 20001, 20000, 19999, 5000>>,
     contrast          |-> <<0, 1999, 2000, 2001, 3000, 3999, 4000, 4001, 9000>>,
     brightness        |-> <<0, 19, 20, 29, 30, 70, 71, 80, 81, 50>>,
     saturation        |-> <<100, 71, 70, 40, 39, 20, 19, 0, 55, 80>>,
     color_temperature |-> <<-100, -35, -31, -30, -21, -20, 0, 20, 21, 25, 30, 31, 100>>]

Levels == 1..Len(MetricValues["color_temperature"])

ValueAt(k, i) == MetricValues[k][((i - 1) % Len(MetricValues[k])) + 1]

\* What the feature extractors and the SVM do with a frame: raise, or predict a class.
SvmOutcomes ==
    {[kind |-> "raises"]} \cup {[kind |-> "prediction", value |-> n] : n \in 0..3}

\* What YOLO does with a frame: raise, or find masks covering a percentage of it.
YoloOutcomes ==
    {[kind |-> "raises"]}
    \cup {[kind |-> "areas", percentage |-> p] : p \in {0, 4, 5, 14, 15, 39, 40, 60}}

\* A decoded frame, by what the computations of analyze_frame find in it.
Frames ==
    {[metrics |-> [k \in MetricKeys |-> ValueAt(k, i)], svm |-> s, yolo |-> y] :
        i \in Levels, s \in SvmOutcomes, y \in YoloOutcomes}

\* The maps _assign_quality_categories is given: empty, one metric, all metrics.
AnalysisMaps ==
    {<<>>}
    \cup {[k \in {key} |-> ValueAt(k, i)] : key \in MetricKeys, i \in Levels}
    \cup {[k \in MetricKeys |-> ValueAt(k, i)] : i \in Levels}

TechCalls ==
    {[fn |-> "analyze_frame", frame |-> f] : f \in Frames \cup {None}}
    \cup {[fn |-> "_assign_quality_categories", analysis |-> m] : m \in AnalysisMaps}

\* A str or a float, as opposed to None.
Str(v) == [kind |-> "str", value |-> v]
Float(v) == [kind |-> "float", value |-> v]

\* A faulty ThresholdCategory: a value on the threshold is in the band above.
ThresholdCategory_Inclusive(v, good, average) ==
    IF v >= good THEN "good" ELSE IF v >= average THEN "average" ELSE "bad"

\* 'good' if v > good else 'average' if v > average else 'bad'
ThresholdCategory(v, good, average) ==
    IF v > good THEN "good" ELSE IF v > average THEN "average" ELSE "bad"

BrightnessCategory(brightness) ==
    IF 30 <= brightness /\ brightness <= 70 THEN "good"
    ELSE IF (20 <= brightness /\ brightness < 30) \/ (70 < brightness /\ brightness <= 80)
    THEN "average"
    ELSE "bad"

SaturationCategory(saturation) ==
    IF 40 <= saturation /\ saturation <= 70 THEN "good"
    ELSE IF 20 <= saturation /\ saturation < 40 THEN "average"
    ELSE "bad"

\* A faulty ColorTemperatureCategory: warm is tested first, from 0.2 on.
ColorTemperatureCategory_WarmFirst(temp) ==
    IF temp > 20 THEN "warm"
    ELSE IF -20 <= temp /\ temp <= 20 THEN "neutral"
    ELSE IF -30 <= temp /\ temp < -20 THEN "probably_cold"
    ELSE "cold"

ColorTemperatureCategory(temp) ==
    IF -20 <= temp /\ temp <= 20 THEN "neutral"
    ELSE IF 20 < temp /\ temp <= 30 THEN "probably_warm"
    ELSE IF -30 <= temp /\ temp < -20 THEN "probably_cold"
    ELSE IF temp > 30 THEN "warm"
    ELSE "cold"

CategoryKey(k) ==
    CASE k = "clarity" -> "clarity_category"
      [] k = "contrast" -> "contrast_category"
      [] k = "brightness" -> "brightness_category"
      [] k = "color_temperature" -> "color_temperature_category"
      [] k = "saturation" -> "saturation_category"
      [] k = "sharpness" -> "sharpness_category"

\* _assign_quality_categories(analysis): one category per metric that is there.
AssignQualityCategories(analysis) ==
    LET present == MetricKeys \cap DOMAIN analysis
        category(k) ==
            CASE k = "clarity" -> ThresholdCategory(analysis[k], 40000, 20000)
              [] k = "contrast" -> ThresholdCategory(analysis[k], 4000, 2000)
              [] k = "brightness" -> BrightnessCategory(analysis[k])
              [] k = "color_temperature" -> ColorTemperatureCategory(analysis[k])
              [] k = "saturation" -> SaturationCategory(analysis[k])
              [] k = "sharpness" -> ThresholdCategory(analysis[k], 40000, 20000)
    IN  [c \in {CategoryKey(k) : k \in present} |->
            category(CHOOSE k \in present : CategoryKey(k) = c)]

\* lens_mapping.get(lens_value, 'unknown')
AssignLensCategory(lens_value) ==
    CASE lens_value = 0 -> "standard lens"
      [] lens_value = 1 -> "fisheye lens"
      [] lens_value = 2 -> "wide-angle lens"
      [] OTHER -> "unknown"

\* _classify_lens_type(frame), the classifier being loaded: None when it fails.
ClassifyLensType(frame) ==
    IF frame.svm.kind = "raises" THEN None
    ELSE Str(AssignLensCategory(frame.svm.value))

\* A faulty AnalyzeObjects: a failure is reported as no object found.
AnalyzeObjects_ZeroOnFailure(frame) ==
    IF frame.yolo.kind = "raises" THEN Float(0) ELSE Float(frame.yolo.percentage)

\* _analyze_objects(frame), the detector being loaded: None when it fails.
AnalyzeObjects(frame) ==
    IF frame.yolo.kind = "raises" THEN None ELSE Float(frame.yolo.percentage)

AssignShotType(objects_percentage) ==
    IF objects_percentage = None THEN None
    ELSE IF objects_percentage.value < 5 THEN Str("long shot")
    ELSE IF objects_percentage.value < 15 THEN Str("wide shot")
    ELSE IF objects_percentage.value < 40 THEN Str("medium shot")
    ELSE Str("close-up")

\* The warnings analyze_frame prints for a frame.
WarningsOf(a, frame) ==
    (IF a.svm_model /\ frame.svm.kind = "raises"
     THEN {"Lens type classification failed"} ELSE {})
    \cup (IF a.yolo_model /\ frame.yolo.kind = "raises"
          THEN {"Object analysis failed"} ELSE {})

\* analyze_frame(frame) of the analyzer a, for a frame that is not None.
AnalyzeFrame(a, frame) ==
    LET base ==
            frame.metrics
            @@ [color_balance_metric |-> 0, color_distribution |-> [r |-> 0, g |-> 0, b |-> 0]]
        lens ==
            IF a.svm_model THEN [lens_type |-> ClassifyLensType(frame)] ELSE <<>>
        objects ==
            IF a.yolo_model
            THEN [main_objects_percentage |-> AnalyzeObjects(frame),
                  shot_type |-> AssignShotType(AnalyzeObjects(frame))]
            ELSE <<>>
        analysis == base @@ lens @@ objects
    IN  analysis @@ AssignQualityCategories(analysis)

InitTech ==
    /\ PipelineIdle
    /\ extracted_frames = <<>>
    /\ invocations = <<>>
    /\ ServerIdle
    /\ NoChains
    /\ AudioIdle
    /\ analyzer \in [svm_model : BOOLEAN, yolo_model : BOOLEAN]
    /\ tech_call \in TechCalls
    /\ tech_pc = "called"
    /\ tech_result = None
    /\ warnings = {}

\* analyzer.analyze_frame(frame)
CallAnalyzeFrame ==
    /\ tech_pc = "called"
    /\ tech_call.fn = "analyze_frame"
    /\ IF tech_call.frame = None
       THEN /\ tech_result' = <<>>
            /\ warnings' = warnings
       ELSE /\ tech_result' = AnalyzeFrame(analyzer, tech_call.frame)
            /\ warnings' = warnings \cup WarningsOf(analyzer, tech_call.frame)
    /\ tech_pc' = "returned"
    /\ UNCHANGED <<analyzer, tech_call>>
    /\ UNCHANGED outside_tech

\* analyzer._assign_quality_categories(analysis)
CallAssignQualityCategories ==
    /\ tech_pc = "called"
    /\ tech_call.fn = "_assign_quality_categories"
    /\ tech_result' = AssignQualityCategories(tech_call.analysis)
    /\ tech_pc' = "returned"
    /\ UNCHANGED <<analyzer, tech_call, warnings>>
    /\ UNCHANGED outside_tech

NextTech ==
    \/ CallAnalyzeFrame
    \/ CallAssignQualityCategories

SpecTech == InitTech /\ [][NextTech]_vars

-----------------------------------------------------------------------------
(* AnalyzeAudioHandler.handle *)

ModelNames == {"base", "large-v3"}

\* The arguments of an analyze_audio call; <<>> is a call without arguments.
AudioArguments ==
    {<<>>}
    \cup {[model_name |-> m] : m \in ModelNames}
    \cup {[video_path |-> v] : v \in VideoPaths \cup {""}}
    \cup {[video_path |-> v, model_name |-> m] : v \in VideoPaths \cup {""}, m \in ModelNames}

\* What loading the model and transcribing do: raise, or give a list of segments.
TranscribeOutcomes ==
    {[kind |-> "raises"]} \cup {[kind |-> "segments", total |-> n] : n \in 0..MaxSegments}

\* The name tempfile.NamedTemporaryFile(suffix=".wav", delete=False) gives its file.
TempName == "tmp.wav"

InitAudio ==
    /\ PipelineIdle
    /\ extracted_frames = <<>>
    /\ invocations = <<>>
    /\ ServerIdle
    /\ NoChains
    /\ TechIdle
    /\ audio_arguments \in AudioArguments
    /\ audio_pc = "handle"
    /\ temp_audio_file = None
    /\ tmp_files = {}
    /\ audio_exc = NoException
    /\ audio_result = None
    /\ remove_failed = FALSE

AudioRaise(type, msg) ==
    /\ audio_exc' = [type |-> type, msg |-> msg]
    /\ audio_pc' = "raised"

\* The three checks before the try block.
AudioValidate ==
    /\ audio_pc = "handle"
    /\ IF audio_arguments = <<>>
       THEN AudioRaise("ValueError", "Missing arguments for analyze_audio")
       ELSE IF Get(audio_arguments, "video_path", "") = ""
       THEN AudioRaise("ValueError", "video_path is required")
       ELSE IF ~PathExists(audio_arguments.video_path)
       THEN AudioRaise("ValueError", "Video file not found")
       ELSE /\ audio_pc' = "create_temp"
            /\ audio_exc' = audio_exc
    /\ UNCHANGED <<audio_arguments, temp_audio_file, tmp_files, audio_result,
                   remove_failed>>
    /\ UNCHANGED outside_audio

\* with tempfile.NamedTemporaryFile(suffix=".wav", delete=False) as temp_file
AudioCreateTemp ==
    /\ audio_pc = "create_temp"
    /\ \E created \in BOOLEAN :
          IF created
          THEN /\ temp_audio_file' = [kind |-> "str", value |-> TempName]
               /\ tmp_files' = tmp_files \cup {TempName}
               /\ audio_pc' = "extract"
               /\ audio_exc' = audio_exc
          ELSE /\ audio_exc' = [type |-> "OSError", msg |-> "no temporary file"]
               /\ audio_pc' = "except"
               /\ UNCHANGED <<temp_audio_file, tmp_files>>
    /\ UNCHANGED <<audio_arguments, audio_result, remove_failed>>
    /\ UNCHANGED outside_audio

\* VideoToAudioTranslator(video_path, temp_audio_file): writes the audio or raises.
AudioExtract ==
    /\ audio_pc = "extract"
    /\ \E extracted \in BOOLEAN :
          IF extracted
          THEN /\ audio_pc' = "transcribe"
               /\ audio_exc' = audio_exc
          ELSE /\ audio_exc' = [type |-> "AttributeError", msg |-> "no audio track"]
               /\ audio_pc' = "except"
    /\ UNCHANGED <<audio_arguments, temp_audio_file, tmp_files, audio_result,
                   remove_failed>>
    /\ UNCHANGED outside_audio

\* The device is chosen, the model loaded, the audio transcribed and the result
\* formatted; loading or transcribing may raise.
AudioTranscribe ==
    /\ audio_pc = "transcribe"
    /\ \E cuda \in BOOLEAN, transcription \in TranscribeOutcomes :
          IF transcription.kind = "raises"
          THEN /\ audio_exc' = [type |-> "RuntimeError", msg |-> "transcription failed"]
               /\ audio_pc' = "except"
               /\ audio_result' = audio_result
          ELSE /\ audio_result' =
                      [kind |-> "json",
                       video_path |-> audio_arguments.video_path,
                       model_name |-> Get(audio_arguments, "model_name", "large-v3"),
                       device_used |-> IF cuda THEN "cuda" ELSE "cpu",
                       total_segments |-> transcription.total,
                       audio_extracted_successfully |-> TRUE]
               /\ audio_pc' = "finally"
               /\ audio_exc' = audio_exc
    /\ UNCHANGED <<audio_arguments, temp_audio_file, tmp_files, remove_failed>>
    /\ UNCHANGED outside_audio

\* except Exception as e: the error text is the result.
AudioExcept ==
    /\ audio_pc = "except"
    /\ audio_result' = [kind |-> "text", prefix |-> "Error analyzing audio:",
                        msg |-> audio_exc.msg]
    /\ audio_pc' = "finally"
    /\ UNCHANGED <<audio_arguments, temp_audio_file, tmp_files, audio_exc, remove_failed>>
    /\ UNCHANGED outside_audio

\* A faulty AudioFinally: the file is removed at the end of the try block only.
AudioFinally_SuccessOnly ==
    /\ audio_pc = "finally"
    /\ IF /\ audio_exc = NoException
          /\ temp_audio_file # None
          /\ temp_audio_file.value \in tmp_files
       THEN \E removed \in BOOLEAN :
               IF removed
               THEN /\ tmp_files' = tmp_files \ {temp_audio_file.value}
                    /\ remove_failed' = remove_failed
               ELSE /\ tmp_files' = tmp_files
                    /\ remove_failed' = TRUE
       ELSE UNCHANGED <<tmp_files, remove_failed>>
    /\ audio_pc' = "returned"
    /\ UNCHANGED <<audio_arguments, temp_audio_file, audio_exc, audio_result>>
    /\ UNCHANGED outside_audio

\* finally: os.remove(temp_audio_file) if the file is there; an OSError is ignored.
AudioFinally ==
    /\ audio_pc = "finally"
    /\ IF temp_audio_file # None /\ temp_audio_file.value \in tmp_files
       THEN \E removed \in BOOLEAN :
               IF removed
               THEN /\ tmp_files' = tmp_files \ {temp_audio_file.value}
                    /\ remove_failed' = remove_failed
               ELSE /\ tmp_files' = tmp_files
                    /\ remove_failed' = TRUE
       ELSE UNCHANGED <<tmp_files, remove_failed>>
    /\ audio_pc' = "returned"
    /\ UNCHANGED <<audio_arguments, temp_audio_file, audio_exc, audio_result>>
    /\ UNCHANGED outside_audio

NextAudio ==
    \/ AudioValidate
    \/ AudioCreateTemp
    \/ AudioExtract
    \/ AudioTranscribe
    \/ AudioExcept
    \/ AudioFinally

SpecAudio == InitAudio /\ [][NextAudio]_vars

-----------------------------------------------------------------------------
(* What the claims speak about *)

\* analyse() has returned its MediaContext.
Built == pc \in {"format", "returned"} /\ media_context # None

\* select_frames() has returned.
Selected == pc = "frames"

\* The positions in selected_frames, among the first k, whose frame decoded.
RECURSIVE SurvivingPositions(_, _)
SurvivingPositions(dec, k) ==
    IF k = 0 THEN <<>>
    ELSE IF dec[k] THEN Append(SurvivingPositions(dec, k - 1), k)
    ELSE SurvivingPositions(dec, k - 1)

\* The FrameInfo of the frames that decoded, in the order the strategy emitted them.
Survivors ==
    LET pos == SurvivingPositions(decoded, Len(decoded))
    IN  [j \in 1..Len(pos) |-> selected_frames[pos[j]]]

NoneDecoded == \A k \in 1..Len(decoded) : ~decoded[k]
AllDecoded == \A k \in 1..Len(decoded) : decoded[k]

Starts(actions) == [k \in 1..Len(actions) |-> actions[k].start]
Ends(actions) == [k \in 1..Len(actions) |-> actions[k].end]

-----------------------------------------------------------------------------
(* C1 *)

\* C1: for a video of duration D > 0 and a non-empty set of surviving frames, the
\* actions analyse() returns partition the timeline: the first starts at 0, the last
\* ends at D, and each action ends where the next one starts, whichever frames dropped.
C1_Partition ==
    (Built /\ video.duration > 0 /\ Len(media_context.actions) > 0) =>
        LET a == media_context.actions
            n == Len(a)
        IN  /\ a[1].start = 0
            /\ a[n].end = video.duration
            /\ \A k \in 1..(n - 1) : a[k].end = a[k + 1].start

\* Three actions were built although a selected frame was dropped.
C1_Witness ==
    /\ Built
    /\ video.duration > 0
    /\ Len(media_context.actions) >= 3
    /\ ~AllDecoded

-----------------------------------------------------------------------------
(* C2 *)

\* C2: the interior boundaries are the midpoints between adjacent surviving frames:
\* start of action i > 0 is (timestamp[i-1] + timestamp[i]) / 2 and end of action
\* i < n-1 is (timestamp[i] + timestamp[i+1]) / 2, over the frames that decoded; for
\* duration 10 s, period 2 s and five decoded frames the starts are 0, 1, 3, 5, 7 s
\* and the ends 1, 3, 5, 7, 10 s (here in half seconds).
C2_Midpoints ==
    Built =>
        LET a == media_context.actions
            s == Survivors
            n == Len(s)
        IN  /\ Len(a) = n
            /\ \A k \in 1..n :
                  /\ k > 1 => 2 * a[k].start = s[k - 1].timestamp + s[k].timestamp
                  /\ k < n => 2 * a[k].end = s[k].timestamp + s[k + 1].timestamp
            /\ (video.duration = 20 /\ Period = 4 /\ AllDecoded) =>
                  /\ Starts(a) = <<0, 2, 6, 10, 14>>
                  /\ Ends(a) = <<2, 6, 10, 14, 20>>

\* An interior selected frame was dropped and both its neighbours decoded, so that a
\* boundary lies between two frames the strategy did not emit next to each other.
C2_Witness ==
    /\ Built
    /\ \E k \in 2..(Len(decoded) - 1) : ~decoded[k] /\ decoded[k - 1] /\ decoded[k + 1]

-----------------------------------------------------------------------------
(* C3 *)

\* ceil(a / b) for b > 0
CeilDiv(a, b) == (a + b - 1) \div b

\* C3: select_frames() with period p > 0, duration D and frame rate f emits exactly
\* ceil(D / p) frames when D > 0, the k-th (from 0) with timestamp k * p (the float
\* nearest to it) and index floor(k * p * f), and no frame when D <= 0.
C3_SelectFrames ==
    (Selected /\ strategy.period > 0) =>
        LET p == strategy.period
            D == strategy.duration
            f == strategy.fps
        IN  /\ Len(selected_frames) = IF D > 0 THEN CeilDiv(D, p) ELSE 0
            /\ \A k \in 1..Len(selected_frames) :
                  /\ selected_frames[k].timestamp = Round((k - 1) * p)
                  /\ selected_frames[k].index = FrameIndex(Round((k - 1) * p), f)

-----------------------------------------------------------------------------
(* C4 *)

\* C4: a selected frame that fails to decode contributes no Action and does not abort
\* the run: every selected frame is tried, only a raising collaborator ends the run
\* early, and the result holds one Action per decoded frame, in the strategy's order.
C4_DroppedFrames ==
    /\ Built =>
          /\ Len(decoded) = Len(selected_frames)
          /\ [k \in 1..Len(media_context.actions) |->
                 FrameInfo(media_context.actions[k].content.frame_index,
                           media_context.actions[k].content.frame_timestamp)]
             = Survivors
    /\ (pc = "frames" /\ decoded # <<>> /\ ~decoded[Len(decoded)]) =>
          frame_i = Len(decoded) + 1
    /\ (pc = "except" /\ decoded # <<>>) => decoded[Len(decoded)]

\* A frame failed to decode, a later one decoded, and the MediaContext was returned.
C4_Witness ==
    /\ Built
    /\ \E k \in 1..Len(decoded) : \E l \in (k + 1)..Len(decoded) : ~decoded[k] /\ decoded[l]

-----------------------------------------------------------------------------
(* C5 *)

\* C5: if frame_analysis_fn raises for one decoded frame, analyse() still returns a
\* MediaContext: no exception leaves analyse(), and the handler's result is the JSON
\* with that frame's action in it.
C5_CaptionFailureKept ==
    env_failed.kind = "caption_raised" =>
        /\ pc # "except"
        /\ pc = "returned" =>
              /\ result.kind = "json"
              /\ \E k \in 1..Len(result.actions) :
                    result.actions[k].content.frame_timestamp
                        = selected_frames[env_failed.frame].timestamp

-----------------------------------------------------------------------------
(* C6 *)

\* C6: analyze_frame raising on one decoded frame does not abort analyse() and does
\* not remove the frame's caption: no exception leaves analyse(), and the handler's
\* result is the JSON with that frame's action in it.
C6_TechnicalFailureKept ==
    env_failed.kind = "technical_raised" =>
        /\ pc # "except"
        /\ pc = "returned" =>
              /\ result.kind = "json"
              /\ \E k \in 1..Len(result.actions) :
                    /\ result.actions[k].content.frame_timestamp
                           = selected_frames[env_failed.frame].timestamp
                    /\ result.actions[k].content.description
                           = Caption(env_failed.frame, selected_frames[env_failed.frame])

-----------------------------------------------------------------------------
(* C7 *)

\* C7: a period <= 0 is rejected before any pipeline work starts: no strategy is
\* built, no frame is selected or decoded, and the caller gets an error.
C7_PeriodValidated ==
    Period <= 0 =>
        /\ strategy = None
        /\ selected_frames = <<>>
        /\ decoded = <<>>
        /\ pc = "returned" => result.kind = "text"

-----------------------------------------------------------------------------
(* C8 *)

\* C8: if no selected frame survives decoding, analyse() returns a MediaContext with
\* no action and does not raise, and the handler returns total_actions = 0 and an
\* empty actions list.
C8_NoSurvivors ==
    /\ (Built /\ NoneDecoded) => media_context.actions = <<>>
    /\ (pc = "returned" /\ media_context # None /\ NoneDecoded) =>
          /\ result.kind = "json"
          /\ result.total_actions = 0
          /\ result.actions = <<>>
    /\ (pc = "except" /\ strategy # None) => ~NoneDecoded

\* The handler returned after two or more selected frames all failed to decode.
C8_Witness ==
    /\ pc = "returned"
    /\ result.kind = "json"
    /\ Len(selected_frames) >= 2
    /\ Len(decoded) = Len(selected_frames)
    /\ NoneDecoded

-----------------------------------------------------------------------------
(* C9 *)

\* The actions without their technical_analysis.
Stripped(actions) ==
    [k \in 1..Len(actions) |->
        [start |-> actions[k].start, end |-> actions[k].end,
         content |-> actions[k].content]]

\* What the first loop of analyse() collects from the decode outcomes and captions
\* alone, with no technical analysis.
PlainAnalyses ==
    LET pos == SurvivingPositions(decoded, Len(decoded))
    IN  [j \in 1..Len(pos) |->
            [frame_info |-> selected_frames[pos[j]],
             caption |-> Caption(pos[j], selected_frames[pos[j]]),
             technical_analysis |-> None]]

\* C9: with technical analysis disabled every action's technical_analysis is None,
\* and start, end and content of the actions are those of a run with technical
\* analysis enabled on the same video, strategy, decode outcomes and captions: in
\* both runs they are a function of these alone.
C9_TechnicalFlag ==
    Built =>
        /\ ~EnableTechnicalAnalysis =>
              \A k \in 1..Len(media_context.actions) :
                  media_context.actions[k].technical_analysis = None
        /\ Stripped(media_context.actions)
               = Stripped(ActionsOf(PlainAnalyses, video.duration))

\* A run with technical analysis disabled returned two or more actions.
C9_Witness ==
    /\ Built
    /\ ~EnableTechnicalAnalysis
    /\ Len(media_context.actions) >= 2

-----------------------------------------------------------------------------
(* C10 *)

\* C10: for a video of duration D > 0 and a period > 0, every action of the handler's
\* result has end > start, whichever selected frames failed to decode.
C10_PositiveSpan ==
    (pc = "returned" /\ result.kind = "json" /\ video.duration > 0 /\ Period > 0) =>
        \A k \in 1..Len(result.actions) : result.actions[k].end > result.actions[k].start

\* The handler returned two or more actions although a frame failed to decode.
C10_Witness ==
    /\ pc = "returned"
    /\ result.kind = "json"
    /\ video.duration > 0
    /\ Period > 0
    /\ Len(result.actions) >= 2
    /\ ~AllDecoded

-----------------------------------------------------------------------------
(* C11 *)

\* C11: whatever ordered frames a strategy hands to FrameSelectionAnalysis, also a
\* PeriodicSelectionStrategy built from an explicit period, duration and fps, and
\* whichever frames decode, every action analyse() returns satisfies
\* 0 <= start <= end <= D, where D is the duration analyse() read from the video.
C11_ActionsWithinVideo ==
    Built =>
        \A k \in 1..Len(media_context.actions) :
            LET a == media_context.actions[k]
            IN  /\ 0 <= a.start
                /\ a.start <= a.end
                /\ a.end <= video.duration

-----------------------------------------------------------------------------
(* C12 *)

\* C12: the JSON result lists one entry per Action of the MediaContext, in the same
\* order; total_actions is the number of entries; and the duration of every entry is
\* its end minus its start.
C12_ResultMirrorsActions ==
    (pc = "returned" /\ result.kind = "json") =>
        LET a == media_context.actions
            r == result.actions
        IN  /\ Len(r) = Len(a)
            /\ result.total_actions = Len(r)
            /\ \A k \in 1..Len(r) :
                  /\ r[k].start = a[k].start
                  /\ r[k].end = a[k].end
                  /\ r[k].content = a[k].content
                  /\ r[k].duration = FSub(r[k].end, r[k].start)

\* A result of three entries or more, two of them of different durations.
C12_Witness ==
    /\ pc = "returned"
    /\ result.kind = "json"
    /\ result.total_actions >= 3
    /\ \E j, k \in 1..Len(result.actions) :
          result.actions[j].duration # result.actions[k].duration

-----------------------------------------------------------------------------
(* C13 *)

\* C13: when anything fails inside the pipeline (reading the metadata, building the
\* strategy, analyse()), the caller receives one text result that begins with
\* 'Error analyzing video:' and no action list; a JSON result is only ever that of a
\* run that went through every selected frame, never of a partially completed one;
\* and nothing is raised to the caller once the pipeline has started.
C13_FailureIsErrorText ==
    /\ (pc = "returned" /\ exc # NoException) =>
          /\ result = [kind |-> "text", text |-> "Error analyzing video: ",
                       error |-> exc.msg]
          /\ "actions" \notin DOMAIN result
    /\ (pc = "returned" /\ result.kind = "json") =>
          /\ exc = NoException
          /\ env_failed = None
          /\ Len(decoded) = Len(selected_frames)
    /\ pc = "raised" =>
          /\ strategy = None
          /\ decoded = <<>>
          /\ env_failed = None

\* The technical analysis of the third frame raised after two frames were analysed,
\* and the call has returned.
C13_Witness ==
    /\ pc = "returned"
    /\ env_failed # None
    /\ exc.msg = "technical_raised"
    /\ Len(frame_analyses) >= 2
    /\ result.kind = "text"

-----------------------------------------------------------------------------
(* C14 *)

\* C14: handle() called with no arguments (None or an empty dict) raises ValueError
\* 'Missing arguments', and called without video_path raises ValueError 'video_path
\* is required'; in both cases no strategy is built, no frame is decoded and nothing
\* is returned.
C14_MissingArguments ==
    (pc # "handle" /\ "video_path" \notin DOMAIN arguments) =>
        /\ pc = "raised"
        /\ exc = [type |-> "ValueError",
                  msg |-> IF DOMAIN arguments = {}
                          THEN "Missing arguments for analyze_video"
                          ELSE "video_path is required"]
        /\ strategy = None
        /\ selected_frames = <<>>
        /\ decoded = <<>>
        /\ result = None

\* A call with a period but no video_path has raised.
C14_Witness ==
    /\ pc = "raised"
    /\ DOMAIN arguments = {"period"}
    /\ exc.msg = "video_path is required"

-----------------------------------------------------------------------------
(* C15 *)

\* C15: handle() called with a video_path that does not exist does not raise: it
\* returns one text result that mentions 'not found' or 'error'.
C15_MissingFileReturned ==
    (/\ pc # "handle"
     /\ "video_path" \in DOMAIN arguments
     /\ ~PathExists(arguments.video_path)) =>
        /\ pc = "returned"
        /\ result.kind = "text"

-----------------------------------------------------------------------------
(* C16 *)

\* C16: two analyse() calls on paths of the same base name, interleaved at the steps
\* of the frame loop (write the frame file, caption it, read it back for technical
\* analysis), never use each other's frame files: the caption and the metrics an
\* invocation keeps for a frame come from the frame that invocation itself decoded.
C16_OwnFrameFiles ==
    \A k \in DOMAIN invocations :
        LET inv == invocations[k]
        IN  \A j \in 1..Len(inv.frame_analyses) :
                LET t   == inv.frame_analyses[j]
                    own == FrameImage(inv.video_path, t.frame_info.index)
                IN  /\ t.caption = CaptionOf(own)
                    /\ t.technical_analysis = MetricsOf(own)

-----------------------------------------------------------------------------
(* C17 *)

\* C17: once analyse() has returned or failed, none of its frame image files is left
\* under extracted_frames/.
C17_TempFilesRemoved ==
    pc \in {"format", "except", "returned"} => DOMAIN extracted_frames = {}

-----------------------------------------------------------------------------
(* C18 *)

-----------------------------------------------------------------------------
(* C19, C20 *)

\* The chain the dispatch was called on, and the positions of its handlers that can
\* handle the tool.
DispatchChain == chains[dispatching.chain]
Matching == {i \in DOMAIN DispatchChain : CanHandle(DispatchChain[i], dispatching.tool_name)}
DispatchOver == dispatching.pc \in {"returned", "raised"}

\* C19: dispatch() invokes handle() on exactly one handler, the first in the order of
\* the chain's tuple whose can_handle(tool_name) is true; no handler placed after it
\* and no handler outside the chain's tuple is invoked (and none at all when no
\* handler of the chain can handle the tool).
C19_FirstMatch ==
    DispatchOver =>
        IF Matching # {}
        THEN handled = <<DispatchChain[CHOOSE i \in Matching : \A j \in Matching : i <= j]>>
        ELSE handled = <<>>

\* C20: whatever the order and the length of a chain of AnalyzeVideoHandlers and
\* AnalyzeAudioHandlers, dispatching a tool name that no handler of the chain can
\* handle raises ValueError 'No handler found for tool', and dispatching on an empty
\* chain raises ValueError 'No handlers registered in the chain'; no other type of
\* exception results.
C20_OnlyValueError ==
    (DispatchOver /\ Matching = {}) =>
        /\ dispatching.pc = "raised"
        /\ dispatching.exc =
               [type |-> "ValueError",
                msg |-> IF DispatchChain = <<>>
                        THEN "No handlers registered in the chain"
                        ELSE "No handler found for tool"]

-----------------------------------------------------------------------------
(* C21 *)

\* C21: a HandlerChain is immutable: building another chain with with_handler,
\* with_handlers, of or the constructor, also from handler objects the chain holds,
\* never changes an existing chain: for every tool name the existing chain dispatches
\* to the same handler, or raises the same error, before and after the step.
C21_ChainsImmutable ==
    [][\A c \in DOMAIN chains : \A tool_name \in ToolNames :
           /\ chains'[c] = chains[c]
           /\ DispatchOutcome(next_handler', chains'[c], tool_name)
                  = DispatchOutcome(next_handler, chains[c], tool_name)]_vars

-----------------------------------------------------------------------------
(* C29 *)

\* C29: dispatch() terminates for every tool name and every chain, after visiting
\* each handler at most once, also when the chain's handlers are members of other
\* chains in another order: the next-pointers never form a cycle, so that no call
\* is passed to a handler that already passed it on.
C29_DispatchTerminates ==
    /\ dispatching.exc.type # "RecursionError"
    /\ \A c \in DOMAIN chains : \A tool_name \in ToolNames :
          LET o == DispatchOutcome(next_handler, chains[c], tool_name)
          IN  ~(o.kind = "raised" /\ o.by = "RecursionError")

-----------------------------------------------------------------------------
(* C25 *)

\* C25: AnalyzeVideoHandler advertises the tool name 'analyze_video' in
\* get_tool_definition, and its can_handle is true for 'analyze_video' and false for
\* every other tool name: a call that reaches the handler is handled by it exactly
\* when the tool name is 'analyze_video'.
C25_ToolName ==
    /\ \A i \in DOMAIN tools.definitions :
          chains[tools.chain][i].kind = "AnalyzeVideoHandler" =>
              tools.definitions[i].name = "analyze_video"
    /\ (/\ DispatchOver
        /\ DispatchChain # <<>>
        /\ Head(DispatchChain).kind = "AnalyzeVideoHandler") =>
           (handled = <<Head(DispatchChain)>> <=> dispatching.tool_name = "analyze_video")

-----------------------------------------------------------------------------
(* C26 *)

\* C26: in a successful result video_path equals the video_path argument and
\* analysis_period equals the period argument, or 1.0 (two half seconds) when the
\* argument is omitted; the strategy was built with that same period.
C26_ResultEchoesArguments ==
    (pc = "returned" /\ result.kind = "json") =>
        LET expected == IF "period" \in DOMAIN arguments
                        THEN arguments.period ELSE 2
        IN  /\ result.video_path = arguments.video_path
            /\ result.analysis_period = expected
            /\ strategy # None
            /\ strategy.period = expected

\* A successful call with the period omitted, and with actions in the result.
C26_Witness ==
    /\ pc = "returned"
    /\ result.kind = "json"
    /\ "period" \notin DOMAIN arguments
    /\ result.analysis_period = 2
    /\ result.total_actions >= 2

-----------------------------------------------------------------------------
(* C28 *)

-----------------------------------------------------------------------------
(* C27 *)

-----------------------------------------------------------------------------
(* C22, C23, C24 *)

\* A call on the analyzer has returned a map.
TechReturned == tech_pc = "returned"

\* The metrics map the categories of the returned call were computed from.
Scalars ==
    IF tech_call.fn = "_assign_quality_categories" THEN tech_call.analysis ELSE tech_result

\* good above the first threshold, average above the second, bad otherwise.
AboveTable(v, category, good, average) ==
    /\ category \in {"good", "average", "bad"}
    /\ category = "good" <=> v > good
    /\ category = "average" <=> (v > average /\ v <= good)
    /\ category = "bad" <=> v <= average

\* C22: for every value of clarity, sharpness, contrast, brightness and saturation
\* present in the metrics map, _assign_quality_categories assigns exactly one category,
\* as the threshold table states: clarity and sharpness good above 400, average above
\* 200, else bad; contrast good above 40, average above 20, else bad; brightness good
\* in [0.3, 0.7], average in [0.2, 0.3) or (0.7, 0.8], else bad; saturation good in
\* [0.4, 0.7], average in [0.2, 0.4), else bad. A metric that is absent gets no category.
C22_QualityCategories ==
    TechReturned =>
        LET m == Scalars
            r == tech_result
        IN  /\ \A k \in MetricKeys : k \in DOMAIN m <=> CategoryKey(k) \in DOMAIN r
            /\ "clarity" \in DOMAIN m =>
                  AboveTable(m["clarity"], r["clarity_category"], 40000, 20000)
            /\ "sharpness" \in DOMAIN m =>
                  AboveTable(m["sharpness"], r["sharpness_category"], 40000, 20000)
            /\ "contrast" \in DOMAIN m =>
                  AboveTable(m["contrast"], r["contrast_category"], 4000, 2000)
            /\ "brightness" \in DOMAIN m =>
                  LET v == m["brightness"]
                      c == r["brightness_category"]
                  IN  /\ c \in {"good", "average", "bad"}
                      /\ c = "good" <=> (30 <= v /\ v <= 70)
                      /\ c = "average" <=> ((20 <= v /\ v < 30) \/ (70 < v /\ v <= 80))
                      /\ c = "bad" <=> (v < 20 \/ v > 80)
            /\ "saturation" \in DOMAIN m =>
                  LET v == m["saturation"]
                      c == r["saturation_category"]
                  IN  /\ c \in {"good", "average", "bad"}
                      /\ c = "good" <=> (40 <= v /\ v <= 70)
                      /\ c = "average" <=> (20 <= v /\ v < 40)
                      /\ c = "bad" <=> (v < 20 \/ v > 70)

\* _assign_quality_categories was given a clarity of exactly 400 and nothing else,
\* and answered average.
C22_Witness ==
    /\ TechReturned
    /\ tech_call.fn = "_assign_quality_categories"
    /\ DOMAIN tech_call.analysis = {"clarity"}
    /\ tech_call.analysis["clarity"] = 40000
    /\ tech_result["clarity_category"] = "average"

\* C23: color_temperature_category is a total five-way partition of the scalar:
\* neutral on [-0.2, 0.2], probably_warm on (0.2, 0.3], warm above 0.3, probably_cold
\* on [-0.3, -0.2), cold below -0.3.
C23_ColorTemperature ==
    (TechReturned /\ "color_temperature" \in DOMAIN Scalars) =>
        LET v == Scalars["color_temperature"]
            c == tech_result["color_temperature_category"]
        IN  /\ c \in {"neutral", "probably_warm", "warm", "probably_cold", "cold"}
            /\ c = "neutral" <=> (-20 <= v /\ v <= 20)
            /\ c = "probably_warm" <=> (20 < v /\ v <= 30)
            /\ c = "warm" <=> v > 30
            /\ c = "probably_cold" <=> (-30 <= v /\ v < -20)
            /\ c = "cold" <=> v < -30

\* analyze_frame found a color temperature of 0.25 and called it probably_warm.
C23_Witness ==
    /\ TechReturned
    /\ tech_call.fn = "analyze_frame"
    /\ tech_call.frame # None
    /\ tech_result["color_temperature"] = 25
    /\ tech_result["color_temperature_category"] = "probably_warm"

\* analyze_frame has returned the metrics of a frame.
FrameAnalysed ==
    /\ TechReturned
    /\ tech_call.fn = "analyze_frame"
    /\ tech_call.frame # None

\* The base metrics and their categories are all in the returned map.
BasePresent ==
    /\ MetricKeys \subseteq DOMAIN tech_result
    /\ {"color_balance_metric", "color_distribution"} \subseteq DOMAIN tech_result
    /\ \A k \in MetricKeys : CategoryKey(k) \in DOMAIN tech_result

-----------------------------------------------------------------------------
(* C30 *)

\* What handle() answers is what the try block decided: the JSON result when
\* nothing was raised in it, the error text otherwise.
ResultOfTry ==
    /\ audio_result # None
    /\ audio_result.kind = "json" <=> audio_exc = NoException
    /\ audio_result.kind = "text" <=> audio_exc # NoException

\* C30 as stated: AnalyzeAudioHandler.handle leaves no temporary audio file behind:
\* on every path after the temp file was created (a transcription, or a failure
\* turned into the 'Error analyzing audio:' text) the file has been removed when
\* handle returns; a failure of the removal does not change the returned result;
\* validation errors are raised before any temp file is created.
C30_NoTempFileLeft ==
    /\ audio_pc = "returned" => (tmp_files = {} /\ ResultOfTry)
    /\ audio_pc = "raised" =>
          (tmp_files = {} /\ temp_audio_file = None /\ audio_result = None)

\* C30 amended: on every path after the temp file was created handle() tries to
\* remove it before it returns; the file is gone unless os.remove raised OSError, in
\* which case it stays behind and the returned result is what it would have been;
\* validation errors are raised before any temp file is created.
C30_TempFileRemovedUnlessRemoveFails ==
    /\ audio_pc = "returned" =>
          /\ tmp_files = {} <=> ~remove_failed
          /\ remove_failed => (temp_audio_file # None /\ tmp_files = {TempName})
          /\ ResultOfTry
    /\ audio_pc = "raised" =>
          (tmp_files = {} /\ temp_audio_file = None /\ audio_result = None)

\* handle() returned the error text of a failed transcription, the temp file that
\* had been created being removed.
C30_Witness ==
    /\ audio_pc = "returned"
    /\ temp_audio_file # None
    /\ audio_exc.type = "RuntimeError"
    /\ audio_result.kind = "text"
    /\ ~remove_failed
    /\ tmp_files = {}

====
